---- MODULE Spec2Model ----
(***************************************************************************)
(* Model of the recipe API (app/recipe/views.py): RecipeViewSet, a         *)
(* ModelViewSet over Recipe rows with token authentication, the            *)
(* IsAuthenticated permission, an owner-filtered queryset ordered by       *)
(* descending id, a list/detail serializer choice and an owner-forcing     *)
(* perform_create.  The serializers and the models live outside            *)
(* app/recipe/views.py and its tests; they are modelled from the           *)
(* specification's field lists.  One action is one HTTP request handled    *)
(* to completion; resp is the response of the last request.                *)
(***************************************************************************)
EXTENDS Integers, Sequences, FiniteSets, TLC

VARIABLES recipes, nextId, tags, nextTagId, resp

vars == <<recipes, nextId, tags, nextTagId, resp>>

-----------------------------------------------------------------------------
(* Bounds *)

\* number of recipe rows ever inserted (ids 1..MaxId)
MaxId == 2

\* number of tag rows ever inserted (ids 1..MaxTagId)
MaxTagId == 2

-----------------------------------------------------------------------------
(* Principals and credentials *)

Users == {"u1", "u2"}

\* request.user when no credential authenticates
AnonymousUser == "anonymous"

\* what a request may carry in its Authorization header: a user's token, no
\* token, or a token that matches no user
Credentials == Users \cup {"none", "invalid"}

\* TokenAuthentication: a valid token resolves to its user, anything else
\* leaves the request unauthenticated
authentication_classes(cred) ==
    IF cred \in Users THEN cred ELSE AnonymousUser

permission_classes_AllowAny(user) == TRUE

\* IsAuthenticated
permission_classes(user) == user \in Users

-----------------------------------------------------------------------------
(* Serializers (recipe/serializers.py) *)

\* fields of RecipeSerializer (list) and RecipeDetailSerializer
SummaryFields == {"id", "title", "time_minutes", "price", "link"}
DetailFields == SummaryFields \cup {"description", "tags"}

\* fields a write payload may set; id and tags are read-only, user is not a
\* serializer field at all
WritableFields_WithUser ==
    {"title", "description", "time_minutes", "price", "link", "user"}

WritableFields == {"title", "description", "time_minutes", "price", "link"}

RequiredFields == {"title", "time_minutes", "price"}

ValidLinks == {"", "http://example.com/recipe.pdf"}

\* model defaults of the optional fields
FieldDefault(k) == ""

\* field validation: no negative time_minutes or price, link is a URL
FieldValid(k, v) ==
    CASE k = "time_minutes" -> v >= 0
      [] k = "price" -> v >= 0
      [] k = "link" -> v \in ValidLinks
      [] OTHER -> TRUE

\* deserialisation keeps the serializer's writable fields and drops every
\* other key of the payload
to_internal_value(data) ==
    [k \in (DOMAIN data) \cap WritableFields |-> data[k]]

is_valid(data, partial) ==
    /\ partial \/ RequiredFields \subseteq DOMAIN data
    /\ \A k \in (DOMAIN data) \cap WritableFields : FieldValid(k, data[k])

\* a serializer bound to request data
Serializer(data) ==
    [initial_data |-> data, validated_data |-> to_internal_value(data)]

to_representation(fields, id, row) ==
    [k \in fields |-> IF k = "id" THEN id ELSE row[k]]

-----------------------------------------------------------------------------
(* RecipeViewSet *)

RECURSIVE order_by_desc(_)
order_by_desc(ids) ==
    IF ids = {} THEN <<>>
    ELSE LET m == CHOOSE i \in ids : \A j \in ids : j <= i
         IN <<m>> \o order_by_desc(ids \ {m})

RECURSIVE order_by_asc(_)
order_by_asc(ids) ==
    IF ids = {} THEN <<>>
    ELSE LET m == CHOOSE i \in ids : \A j \in ids : i <= j
         IN <<m>> \o order_by_asc(ids \ {m})

get_queryset_Unfiltered(user) ==
    order_by_desc(DOMAIN recipes)

get_queryset_Ascending(user) ==
    order_by_asc({i \in DOMAIN recipes : recipes[i].user = user})

\* self.queryset.filter(user=self.request.user).order_by('-id')
get_queryset(user) ==
    order_by_desc({i \in DOMAIN recipes : recipes[i].user = user})

Range(s) == {s[i] : i \in 1..Len(s)}

get_serializer_class_AlwaysList(action) == SummaryFields

get_serializer_class(action) ==
    IF action = "list" THEN SummaryFields ELSE DetailFields

perform_create_PayloadUser(user, serializer) ==
    [k \in WritableFields \cup {"user", "tags"} |->
        IF k = "user"
          THEN IF "user" \in DOMAIN serializer.initial_data
                 THEN serializer.initial_data["user"] ELSE user
        ELSE IF k = "tags" THEN <<>>
        ELSE IF k \in DOMAIN serializer.validated_data
          THEN serializer.validated_data[k]
        ELSE FieldDefault(k)]

\* serializer.save(user=self.request.user): the new row
perform_create(user, serializer) ==
    [k \in WritableFields \cup {"user", "tags"} |->
        IF k = "user" THEN user
        ELSE IF k = "tags" THEN <<>>
        ELSE IF k \in DOMAIN serializer.validated_data
          THEN serializer.validated_data[k]
        ELSE FieldDefault(k)]

\* serializer.save() on an existing instance: validated keys overwrite
perform_update(instance, serializer) ==
    [k \in DOMAIN instance |->
        IF k \in DOMAIN serializer.validated_data
          THEN serializer.validated_data[k]
        ELSE instance[k]]

Response(op, cred, id, data, status, body) ==
    [op |-> op, cred |-> cred, id |-> id, payload |-> data,
     status |-> status, data |-> body]

NoData == <<>>

-----------------------------------------------------------------------------
(* Request payloads, taken from the API tests *)

Payloads ==
    { [title |-> "Test Recipe", description |-> "Sample description",
       time_minutes |-> 30, price |-> 500],
      [title |-> "Test Recipe", description |-> "Sample description",
       time_minutes |-> 30, price |-> 500, user |-> "u2"],
      [title |-> "New recipe title"],
      [user |-> "u2"],
      [title |-> "Test Recipe", time_minutes |-> 30],
      [title |-> "Test Recipe", time_minutes |-> 30, price |-> 0 - 1] }

-----------------------------------------------------------------------------
(* State after migration: the users exist, no recipe and no tag does *)

Init ==
    /\ recipes = <<>>
    /\ nextId = 1
    /\ tags = <<>>
    /\ nextTagId = 1
    /\ resp = Response("none", "none", 0, <<>>, "none", NoData)

-----------------------------------------------------------------------------
(* Requests to the recipe endpoints *)

Unauthorized(op, cred, id, data) ==
    /\ resp' = Response(op, cred, id, data, "Unauthorized", NoData)
    /\ UNCHANGED <<recipes, nextId, tags, nextTagId>>

NotFound(op, cred, id, data) ==
    /\ resp' = Response(op, cred, id, data, "NotFound", NoData)
    /\ UNCHANGED <<recipes, nextId, tags, nextTagId>>

BadRequest(op, cred, id, data) ==
    /\ resp' = Response(op, cred, id, data, "BadRequest", NoData)
    /\ UNCHANGED <<recipes, nextId, tags, nextTagId>>

\* GET /recipes
List(cred) ==
    LET user == authentication_classes(cred) IN
    IF ~permission_classes(user) THEN Unauthorized("list", cred, 0, <<>>)
    ELSE
      LET qs == get_queryset(user)
          body == [i \in 1..Len(qs) |->
                     to_representation(get_serializer_class("list"),
                                       qs[i], recipes[qs[i]])]
      IN /\ resp' = Response("list", cred, 0, <<>>, "OK", body)
         /\ UNCHANGED <<recipes, nextId, tags, nextTagId>>

\* POST /recipes
Create(cred, data) ==
    LET user == authentication_classes(cred) IN
    IF ~permission_classes(user) THEN Unauthorized("create", cred, 0, data)
    ELSE IF ~is_valid(data, FALSE) THEN BadRequest("create", cred, 0, data)
    ELSE
      /\ nextId <= MaxId
      /\ LET row == perform_create(user, Serializer(data))
             id == nextId
         IN /\ recipes' = [i \in (DOMAIN recipes) \cup {id} |->
                              IF i = id THEN row ELSE recipes[i]]
            /\ nextId' = nextId + 1
            /\ resp' = Response("create", cred, id, data, "Created",
                  <<to_representation(get_serializer_class("create"),
                                      id, row)>>)
      /\ UNCHANGED <<tags, nextTagId>>

\* GET /recipes/{id}
Retrieve(cred, id) ==
    LET user == authentication_classes(cred) IN
    IF ~permission_classes(user) THEN Unauthorized("retrieve", cred, id, <<>>)
    ELSE IF id \notin Range(get_queryset(user))
      THEN NotFound("retrieve", cred, id, <<>>)
    ELSE
      /\ resp' = Response("retrieve", cred, id, <<>>, "OK",
            <<to_representation(get_serializer_class("retrieve"),
                                id, recipes[id])>>)
      /\ UNCHANGED <<recipes, nextId, tags, nextTagId>>

\* UpdateModelMixin.update: shared by PUT and PATCH
UpdateWith(op, partial, cred, id, data) ==
    LET user == authentication_classes(cred) IN
    IF ~permission_classes(user) THEN Unauthorized(op, cred, id, data)
    ELSE IF id \notin Range(get_queryset(user))
      THEN NotFound(op, cred, id, data)
    ELSE IF ~is_valid(data, partial) THEN BadRequest(op, cred, id, data)
    ELSE
      LET row == perform_update(recipes[id], Serializer(data))
      IN /\ recipes' = [recipes EXCEPT ![id] = row]
         /\ resp' = Response(op, cred, id, data, "OK",
               <<to_representation(get_serializer_class(op), id, row)>>)
         /\ UNCHANGED <<nextId, tags, nextTagId>>

Update_AsPartial(cred, id, data) ==
    UpdateWith("update", TRUE, cred, id, data)

\* PUT /recipes/{id}
Update(cred, id, data) ==
    UpdateWith("update", FALSE, cred, id, data)

PartialUpdate_AsFull(cred, id, data) ==
    UpdateWith("partial_update", FALSE, cred, id, data)

\* PATCH /recipes/{id}
PartialUpdate(cred, id, data) ==
    UpdateWith("partial_update", TRUE, cred, id, data)

Destroy_KeepsRow(cred, id) ==
    LET user == authentication_classes(cred) IN
    IF ~permission_classes(user) THEN Unauthorized("destroy", cred, id, <<>>)
    ELSE IF id \notin Range(get_queryset(user))
      THEN NotFound("destroy", cred, id, <<>>)
    ELSE
      /\ resp' = Response("destroy", cred, id, <<>>, "NoContent", NoData)
      /\ UNCHANGED <<recipes, nextId, tags, nextTagId>>

\* DELETE /recipes/{id}
Destroy(cred, id) ==
    LET user == authentication_classes(cred) IN
    IF ~permission_classes(user) THEN Unauthorized("destroy", cred, id, <<>>)
    ELSE IF id \notin Range(get_queryset(user))
      THEN NotFound("destroy", cred, id, <<>>)
    ELSE
      /\ recipes' = [i \in (DOMAIN recipes) \ {id} |-> recipes[i]]
      /\ resp' = Response("destroy", cred, id, <<>>, "NoContent", NoData)
      /\ UNCHANGED <<nextId, tags, nextTagId>>

-----------------------------------------------------------------------------
(* Tags *)

TagNames == {"Vegan", "Dessert"}

\* Tag.objects.create(user=..., name=...): the only way a tag row appears
TagCreate(user, name) ==
    /\ nextTagId <= MaxTagId
    /\ tags' = [i \in (DOMAIN tags) \cup {nextTagId} |->
                  IF i = nextTagId THEN [user |-> user, name |-> name]
                  ELSE tags[i]]
    /\ nextTagId' = nextTagId + 1
    /\ UNCHANGED <<recipes, nextId, resp>>

\* the views module defines RecipeViewSet and nothing else: a request to a
\* tag URL resolves to no view
TagList(cred) ==
    /\ resp' = Response("tag_list", cred, 0, <<>>, "NotFound", NoData)
    /\ UNCHANGED <<recipes, nextId, tags, nextTagId>>

TagDestroy(cred, id) ==
    /\ resp' = Response("tag_destroy", cred, id, <<>>, "NotFound", NoData)
    /\ UNCHANGED <<recipes, nextId, tags, nextTagId>>

-----------------------------------------------------------------------------

Ids == 1..MaxId
TagIds == 1..MaxTagId

Next ==
    \/ \E c \in Credentials : List(c)
    \/ \E c \in Credentials, d \in Payloads : Create(c, d)
    \/ \E c \in Credentials, i \in Ids : Retrieve(c, i)
    \/ \E c \in Credentials, i \in Ids, d \in Payloads : Update(c, i, d)
    \/ \E c \in Credentials, i \in Ids, d \in Payloads : PartialUpdate(c, i, d)
    \/ \E c \in Credentials, i \in Ids : Destroy(c, i)

Spec == Init /\ [][Next]_vars

\* the tag endpoints and the rows they are asked about
NextTags ==
    \/ \E u \in Users, n \in TagNames : TagCreate(u, n)
    \/ \E c \in Credentials : TagList(c)
    \/ \E c \in Credentials, i \in TagIds : TagDestroy(c, i)

SpecTags == Init /\ [][NextTags]_vars

-----------------------------------------------------------------------------
(* Properties *)

DetailOps == {"retrieve", "partial_update", "update", "destroy"}

\* the values of a payload's writable fields all pass field validation
ValuesAccepted(data) ==
    \A k \in (DOMAIN data) \cap WritableFields : FieldValid(k, data[k])

\* every row other than i is the same before and after the step
OthersUnchanged(i) ==
    \A j \in (DOMAIN recipes) \ {i} :
        j \in DOMAIN recipes' /\ recipes'[j] = recipes[j]

\* C1: a get, partial update, full update or delete of a recipe by an
\* authenticated principal who is not its owner answers NotFound with no
\* data, exactly as the same request for an id that is not in the store
\* does, and leaves every recipe (the target included) as it was.
C1_OtherOwnerNotFound ==
    [][ /\ \A i \in DOMAIN recipes :
              ( /\ resp'.op \in DetailOps
                /\ resp'.id = i
                /\ resp'.cred \in Users
                /\ resp'.cred # recipes[i].user )
              => /\ resp'.status = "NotFound"
                 /\ resp'.data = NoData
                 /\ recipes' = recipes
        /\ \A i \in Ids \ DOMAIN recipes :
              ( /\ resp'.op \in DetailOps
                /\ resp'.id = i
                /\ resp'.cred \in Users )
              => /\ resp'.status = "NotFound"
                 /\ resp'.data = NoData
                 /\ recipes' = recipes ]_vars

C1_Witness ==
    /\ resp.op = "partial_update"
    /\ resp.cred \in Users
    /\ resp.id \in DOMAIN recipes
    /\ recipes[resp.id].user # resp.cred
    /\ DOMAIN resp.payload = {"title"}
    /\ resp.status = "NotFound"
    /\ recipes[resp.id].title # resp.payload.title

\* C2: a list by an authenticated principal answers OK with exactly the
\* recipes that principal owns, each once, in strictly descending id order.
C2_ListOwnedDescending ==
    (resp.op = "list" /\ resp.cred \in Users) =>
        /\ resp.status = "OK"
        /\ {resp.data[n].id : n \in 1..Len(resp.data)}
             = {i \in DOMAIN recipes : recipes[i].user = resp.cred}
        /\ \A n \in 1..Len(resp.data) : \A m \in 1..Len(resp.data) :
              n < m => resp.data[n].id > resp.data[m].id

C2_Witness ==
    /\ resp.op = "list"
    /\ resp.status = "OK"
    /\ Len(resp.data) >= 2

C4_CreateOwnedByPrincipal ==
    [][ (resp'.op = "create" /\ resp'.status = "Created") =>
          /\ resp'.cred \in Users
          /\ resp'.id \notin DOMAIN recipes
          /\ DOMAIN recipes' = (DOMAIN recipes) \cup {resp'.id}
          /\ recipes'[resp'.id].user = resp'.cred
          /\ \A j \in DOMAIN recipes : recipes'[j] = recipes[j] ]_vars

C4_Witness ==
    /\ resp.op = "create"
    /\ resp.status = "Created"
    /\ "user" \in DOMAIN resp.payload
    /\ resp.payload.user # resp.cred
    /\ recipes[resp.id].user = resp.cred
    /\ Cardinality(DOMAIN recipes) >= 2

\* C5: a partial update by the owner whose supplied values are acceptable
\* answers OK, stores each supplied field with the supplied value, and
\* leaves every other field, the owner and every other recipe unchanged.
C5_PartialUpdateFrame ==
    [][ \A i \in DOMAIN recipes :
          ( /\ resp'.op = "partial_update"
            /\ resp'.id = i
            /\ resp'.cred = recipes[i].user
            /\ ValuesAccepted(resp'.payload) )
          => /\ resp'.status = "OK"
             /\ DOMAIN recipes' = DOMAIN recipes
             /\ \A k \in WritableFields :
                   recipes'[i][k] = IF k \in DOMAIN resp'.payload
                                      THEN resp'.payload[k]
                                      ELSE recipes[i][k]
             /\ recipes'[i].user = recipes[i].user
             /\ recipes'[i].tags = recipes[i].tags
             /\ OthersUnchanged(i) ]_vars

C5_Witness ==
    /\ resp.op = "partial_update"
    /\ resp.status = "OK"
    /\ DOMAIN resp.payload = {"title"}
    /\ recipes[resp.id].title = resp.payload.title
    /\ recipes[resp.id].description = "Sample description"
    /\ recipes[resp.id].user = resp.cred

\* C6: a full update by the owner whose payload omits a required field
\* answers BadRequest and writes nothing; one that carries every required
\* field with acceptable values answers OK, stores each supplied field and
\* keeps the owner.
C6_FullUpdateRequiresAll ==
    [][ \A i \in DOMAIN recipes :
          ( /\ resp'.op = "update"
            /\ resp'.id = i
            /\ resp'.cred = recipes[i].user )
          => /\ ~(RequiredFields \subseteq DOMAIN resp'.payload) =>
                   /\ resp'.status = "BadRequest"
                   /\ recipes' = recipes
             /\ ( /\ RequiredFields \subseteq DOMAIN resp'.payload
                  /\ ValuesAccepted(resp'.payload) ) =>
                   /\ resp'.status = "OK"
                   /\ DOMAIN recipes' = DOMAIN recipes
                   /\ \A k \in (DOMAIN resp'.payload) \cap WritableFields :
                         recipes'[i][k] = resp'.payload[k]
                   /\ recipes'[i].user = recipes[i].user
                   /\ OthersUnchanged(i) ]_vars

C6_Witness ==
    /\ resp.op = "update"
    /\ resp.status = "BadRequest"
    /\ resp.id \in DOMAIN recipes
    /\ recipes[resp.id].user = resp.cred
    /\ "price" \notin DOMAIN resp.payload
    /\ "title" \in DOMAIN resp.payload
    /\ recipes[resp.id].title # resp.payload.title

\* C7: a recipe request that carries no valid credential answers
\* Unauthorized with no data and changes nothing in the store.
C7_UnauthenticatedRejected ==
    [][ resp'.cred \notin Users =>
          /\ resp'.status = "Unauthorized"
          /\ resp'.data = NoData
          /\ recipes' = recipes
          /\ nextId' = nextId ]_vars

C7_Witness ==
    /\ resp.op = "destroy"
    /\ resp.cred \notin Users
    /\ resp.id \in DOMAIN recipes
    /\ resp.status = "Unauthorized"

\* C8: a delete by the owner answers NoContent and removes that row and no
\* other; an id that was handed out and is gone stays gone, every get,
\* update or delete of it by an authenticated principal answers NotFound,
\* and no list contains it.
C8_DeleteIsFinal ==
    [][ /\ \A i \in DOMAIN recipes :
              ( /\ resp'.op = "destroy"
                /\ resp'.id = i
                /\ resp'.cred = recipes[i].user )
              => /\ resp'.status = "NoContent"
                 /\ DOMAIN recipes' = (DOMAIN recipes) \ {i}
                 /\ OthersUnchanged(i)
        /\ \A i \in (1..(nextId - 1)) \ DOMAIN recipes :
              /\ i \notin DOMAIN recipes'
              /\ ( /\ resp'.op \in DetailOps
                   /\ resp'.id = i
                   /\ resp'.cred \in Users ) => resp'.status = "NotFound"
              /\ resp'.op = "list" =>
                   \A n \in 1..Len(resp'.data) : resp'.data[n].id # i ]_vars

C8_Witness ==
    /\ resp.op = "retrieve"
    /\ resp.cred \in Users
    /\ resp.id < nextId
    /\ resp.id \notin DOMAIN recipes
    /\ resp.status = "NotFound"
    /\ DOMAIN recipes # {}

\* a get by the creator directly after the create
GetAfterCreate ==
    /\ resp.op = "create"
    /\ resp.status = "Created"
    /\ resp'.op = "retrieve"
    /\ resp'.id = resp.id
    /\ resp'.cred = resp.cred

\* C9 as stated: the get answers OK, each payload field has the supplied
\* value, the response's keys are the payload's keys plus id, and the owner
\* is not among them.
C9_RoundTripOnlyIdAdded ==
    [][ GetAfterCreate =>
          /\ resp'.status = "OK"
          /\ Len(resp'.data) = 1
          /\ \A k \in (DOMAIN resp.payload) \cap WritableFields :
                /\ k \in DOMAIN resp'.data[1]
                /\ resp'.data[1][k] = resp.payload[k]
          /\ DOMAIN resp'.data[1] = (DOMAIN resp.payload) \cup {"id"}
          /\ "user" \notin DOMAIN resp'.data[1] ]_vars

\* C9 amended: the get answers OK with the detail representation: the id,
\* each field of the payload with the supplied value, each optional field
\* the payload omitted with its empty default, and no tags; a user key of
\* the payload is dropped and the owner never appears.
C9_RoundTripDetail ==
    [][ GetAfterCreate =>
          /\ resp'.status = "OK"
          /\ Len(resp'.data) = 1
          /\ DOMAIN resp'.data[1] = DetailFields
          /\ resp'.data[1].id = resp.id
          /\ \A k \in (DOMAIN resp.payload) \cap WritableFields :
                resp'.data[1][k] = resp.payload[k]
          /\ \A k \in WritableFields \ DOMAIN resp.payload :
                resp'.data[1][k] = ""
          /\ resp'.data[1].tags = <<>>
          /\ "user" \notin DOMAIN resp'.data[1] ]_vars

C9_Witness ==
    /\ resp.op = "retrieve"
    /\ resp.status = "OK"
    /\ resp.data[1].title = "Test Recipe"
    /\ resp.data[1].description = "Sample description"
    /\ resp.data[1].link = ""
    /\ recipes[resp.id].user = resp.cred

\* alphabetical position of a tag name
NameRank(n) == IF n = "Vegan" THEN 2 ELSE 1

\* C10: a tag list by an authenticated principal answers OK with exactly
\* that principal's tags in descending name order, and a delete of another
\* principal's tag answers NotFound and leaves the tag in the store.
C10_TagEndpoints ==
    /\ (resp.op = "tag_list" /\ resp.cred \in Users) =>
          /\ resp.status = "OK"
          /\ {resp.data[n].id : n \in 1..Len(resp.data)}
               = {i \in DOMAIN tags : tags[i].user = resp.cred}
          /\ \A n \in 1..Len(resp.data) : \A m \in 1..Len(resp.data) :
                n < m => NameRank(resp.data[n].name)
                           >= NameRank(resp.data[m].name)
    /\ ( /\ resp.op = "tag_destroy"
         /\ resp.cred \in Users
         /\ resp.id \in DOMAIN tags
         /\ tags[resp.id].user # resp.cred ) => resp.status = "NotFound"

====
